---- MODULE Spec2Model ----
(***************************************************************************)
(* The two notebooks of the repository, notebooks/02/04-bim-maxmin.ipynb   *)
(* and notebooks/02/05-bim-fractional.ipynb, as one state machine: a run   *)
(* of a notebook executes its cells top to bottom (preamble, then each     *)
(* model cell: build the model, SOLVER.solve, print).                      *)
(*                                                                         *)
(* The linear programs are over the reals; the model computes with exact   *)
(* rationals <<n, d>> (d > 0, lowest terms).  The external solver is       *)
(* abstracted to its contract's outer envelope: SOLVER.solve loads into    *)
(* the model ANY point that satisfies the variable bounds and constraints  *)
(* the code declares, drawn from a finite candidate set (a grid plus all   *)
(* basic solutions, i.e. pairwise intersections of constraint boundaries). *)
(* A statement "no feasible point is better than v" is then an invariant   *)
(* over every solution the solver may load.                                *)
(***************************************************************************)
EXTENDS Integers, Sequences, FiniteSets

VARIABLES nb, pc, available, err, solves, built, costs, maxmin,
          lin, frac, mm, out

vars == <<nb, pc, available, err, solves, built, costs, maxmin,
          lin, frac, mm, out>>

(***************************************************************************)
(* Bounds of the candidate sets.                                           *)
(***************************************************************************)
Step == 125      \* grid spacing of candidate production plans
N1 == 9          \* x1 candidates: Step * (-1 .. N1)
N2 == 13         \* x2 candidates: Step * (-1 .. N2)
KMax == 2        \* fractional candidates: t = k / d, k in 0 .. KMax
ZStep == 100     \* maxmin candidates: z = scenario revenue + ZStep * (-1 .. 1)
MaxScen == 3     \* longest price list passed to BIM_maxmin

(***************************************************************************)
(* Exact rational arithmetic.                                              *)
(***************************************************************************)
Abs(n) == IF n < 0 THEN -n ELSE n

RECURSIVE GCD(_, _)
GCD(a, b) == IF b = 0 THEN a ELSE GCD(b, a % b)

Rat(n, d) ==
    LET s == IF d < 0 THEN -1 ELSE 1
        g == GCD(Abs(n), Abs(d))
    IN  <<(s * n) \div g, (s * d) \div g>>

R(n) == <<n, 1>>
RAdd(p, q) == Rat(p[1] * q[2] + q[1] * p[2], p[2] * q[2])
RSub(p, q) == Rat(p[1] * q[2] - q[1] * p[2], p[2] * q[2])
RMul(p, q) ==
    LET g1 == GCD(Abs(p[1]), q[2])
        g2 == GCD(Abs(q[1]), p[2])
    IN  Rat((p[1] \div g1) * (q[1] \div g2), (p[2] \div g2) * (q[2] \div g1))
RDiv(p, q) == RMul(p, Rat(q[2], q[1]))     \* q # 0
RLe(p, q) == p[1] * q[2] <= q[1] * p[2]
RLt(p, q) == p[1] * q[2] < q[1] * p[2]
REq(p, q) == p[1] * q[2] = q[1] * p[2]

Unset == <<>>
AssertMsg == "Solver appsi_highs is not available."
ZeroDiv == "ZeroDivisionError"

(***************************************************************************)
(* Python's fixed-point formatting "{:.<digits>f}": the value rounded to   *)
(* `digits` decimals (ties to even), held as the integer value*10^digits.  *)
(***************************************************************************)
Pow10(k) == IF k = 0 THEN 1 ELSE IF k = 1 THEN 10 ELSE IF k = 2 THEN 100 ELSE 1000

Fmt(r, digits) ==
    LET n == r[1] * Pow10(digits)
        q == n \div r[2]
        rem == n - q * r[2]
    IN  IF 2 * rem > r[2] THEN q + 1
        ELSE IF 2 * rem = r[2] THEN q + (q % 2)
        ELSE q

(***************************************************************************)
(* BIM_with_revenues_minus_costs (05-bim-fractional.ipynb).                *)
(***************************************************************************)
Linear_domain(x) == RLe(R(0), x[1]) /\ RLe(R(0), x[2])
\* faulty variant: the price coefficients swapped
Linear_revenue_swapped(x) == RAdd(RMul(R(9), x[1]), RMul(R(12), x[2]))
Linear_revenue(x) == RAdd(RMul(R(12), x[1]), RMul(R(9), x[2]))
Linear_variable_cost(x) == RAdd(RMul(Rat(7, 6), x[1]), RMul(Rat(5, 6), x[2]))
Linear_fixed_cost == R(100)
\* faulty variant: the fixed cost left out of the objective
Linear_profit_no_fixed(x) == RSub(Linear_revenue(x), Linear_variable_cost(x))
Linear_profit(x) ==
    RSub(RSub(Linear_revenue(x), Linear_variable_cost(x)), Linear_fixed_cost)
Linear_silicon(x) == RLe(x[1], R(1000))
Linear_germanium(x) == RLe(x[2], R(1500))
\* faulty variant: a wrong plastic capacity
Linear_plastic_typo(x) == RLe(RAdd(x[1], x[2]), R(1950))
Linear_plastic(x) == RLe(RAdd(x[1], x[2]), R(1750))
Linear_copper(x) == RLe(RAdd(RMul(R(4), x[1]), RMul(R(2), x[2])), R(4800))

Linear_feasible(x) ==
    /\ Linear_domain(x)
    /\ Linear_silicon(x)
    /\ Linear_germanium(x)
    /\ Linear_plastic(x)
    /\ Linear_copper(x)

\* the cost printed for BIM_linear: value(variable_cost) + value(fixed_cost)
Linear_cost(x) == RAdd(Linear_variable_cost(x), Linear_fixed_cost)

(***************************************************************************)
(* Candidate production plans: a grid, and every basic solution of the     *)
(* BIM resource constraints (intersection of two constraint boundaries     *)
(* a1*x1 + a2*x2 = b, by Cramer's rule).                                   *)
(***************************************************************************)
BIMLines ==
    { <<1, 0, 1000>>, <<0, 1, 1500>>, <<1, 1, 1750>>, <<4, 2, 4800>>,
      <<1, 0, 0>>, <<0, 1, 0>> }

Det2(l, m) == l[1] * m[2] - l[2] * m[1]

Meet(l, m) ==
    <<Rat(l[3] * m[2] - l[2] * m[3], Det2(l, m)),
      Rat(l[1] * m[3] - l[3] * m[1], Det2(l, m))>>

Basic2(lines) ==
    { Meet(l, m) : <<l, m>> \in { p \in lines \X lines : Det2(p[1], p[2]) # 0 } }

GridPts == { <<R(Step * i), R(Step * j)>> : i \in -1 .. N1, j \in -1 .. N2 }

CandX == GridPts \cup Basic2(BIMLines)

(***************************************************************************)
(* BIM_with_revenues_over_costs (05-bim-fractional.ipynb); v = <<y1,y2,t>>.*)
(* The solver receives a variable's domain as bounds: NonNegativeReals and *)
(* PositiveReals both give the lower bound 0 (an LP has no strict bounds). *)
(***************************************************************************)
Frac_domain(v) == RLe(R(0), v[1]) /\ RLe(R(0), v[2]) /\ RLe(R(0), v[3])
Frac_revenue(v) == RAdd(RMul(R(12), v[1]), RMul(R(9), v[2]))
Frac_variable_cost(v) == RAdd(RMul(Rat(7, 6), v[1]), RMul(Rat(5, 6), v[2]))
Frac_fixed_cost == R(100)
Frac_profit(v) == Frac_revenue(v)
\* faulty variant: the right-hand side not scaled by t
Frac_silicon_unscaled(v) == RLe(v[1], R(1000))
Frac_silicon(v) == RLe(v[1], RMul(R(1000), v[3]))
\* faulty variant: the plastic capacity pasted into the germanium constraint
Frac_germanium_cap(v) == RLe(v[2], RMul(R(1750), v[3]))
Frac_germanium(v) == RLe(v[2], RMul(R(1500), v[3]))
Frac_plastic(v) == RLe(RAdd(v[1], v[2]), RMul(R(1750), v[3]))
Frac_copper(v) ==
    RLe(RAdd(RMul(R(4), v[1]), RMul(R(2), v[2])), RMul(R(4800), v[3]))
\* faulty variant: the normalization as an inequality
Frac_frac_le(v) ==
    RLe(RAdd(Frac_variable_cost(v), RMul(Frac_fixed_cost, v[3])), R(1))
Frac_frac(v) ==
    REq(RAdd(Frac_variable_cost(v), RMul(Frac_fixed_cost, v[3])), R(1))

Frac_constraints(v) ==
    /\ Frac_silicon(v)
    /\ Frac_germanium(v)
    /\ Frac_plastic(v)
    /\ Frac_copper(v)
    /\ Frac_frac(v)

Frac_feasible(v) == Frac_domain(v) /\ Frac_constraints(v)

\* The five values the print of BIM_fractional formats (t # 0).
Frac_print_x1(v) == RDiv(v[1], v[3])
Frac_print_x2(v) == RDiv(v[2], v[3])
Frac_print_value(v) ==
    RDiv(Frac_profit(v), RAdd(Frac_variable_cost(v), RMul(Frac_fixed_cost, v[3])))
Frac_print_revenue(v) == RDiv(Frac_revenue(v), v[3])
\* faulty variant: the variable cost not divided by t
Frac_print_cost_unscaled(v) == RAdd(Frac_variable_cost(v), Frac_fixed_cost)
Frac_print_cost(v) == RAdd(RDiv(Frac_variable_cost(v), v[3]), Frac_fixed_cost)

(***************************************************************************)
(* Candidate (y1, y2, t): a candidate plan x and k in 0 .. KMax, both      *)
(* divided by a nonzero scale d: the cost of x or of some basic plan.      *)
(***************************************************************************)
FracScales(x) ==
    ({Linear_cost(x)} \cup { Linear_cost(p) : p \in Basic2(BIMLines) }) \ {R(0)}

FracCand ==
    UNION { { <<RDiv(x[1], d), RDiv(x[2], d), RDiv(R(k), d)>> :
                <<k, d>> \in (0 .. KMax) \X FracScales(x) } : x \in CandX }

(***************************************************************************)
(* BIM_maxmin(costs) (04-bim-maxmin.ipynb); v = <<x1, x2, z>>, z free.     *)
(* m.maxmin is the ConstraintList: one entry <<c1, c2>> per constraint     *)
(* z <= c1 * x1 + c2 * x2, added by the loop over costs.                   *)
(***************************************************************************)
\* faulty variant: the loop stops one price pair early
RECURSIVE Maxmin_add_short(_, _)
Maxmin_add_short(list, cs) ==
    IF Len(cs) <= 1 THEN list
    ELSE Maxmin_add_short(Append(list, Head(cs)), Tail(cs))

RECURSIVE Maxmin_add(_, _)
Maxmin_add(list, cs) ==
    IF cs = <<>> THEN list
    ELSE Maxmin_add(Append(list, Head(cs)), Tail(cs))

BIM_maxmin(cs) == Maxmin_add(<<>>, cs)

Maxmin_domain(v) == RLe(R(0), v[1]) /\ RLe(R(0), v[2])
Maxmin_profit(v) == v[3]
Scenario(c, v) == RAdd(RMul(R(c[1]), v[1]), RMul(R(c[2]), v[2]))
Maxmin_maxmin(list, v) ==
    \A i \in 1 .. Len(list) : RLe(v[3], Scenario(list[i], v))
Maxmin_silicon(v) == RLe(v[1], R(1000))
Maxmin_germanium(v) == RLe(v[2], R(1500))
\* faulty variant: x2 dropped from the plastic constraint
Maxmin_plastic_x1(v) == RLe(v[1], R(1750))
Maxmin_plastic(v) == RLe(RAdd(v[1], v[2]), R(1750))
Maxmin_copper(v) == RLe(RAdd(RMul(R(4), v[1]), RMul(R(2), v[2])), R(4800))

Maxmin_resources(v) ==
    /\ Maxmin_domain(v)
    /\ Maxmin_silicon(v)
    /\ Maxmin_germanium(v)
    /\ Maxmin_plastic(v)
    /\ Maxmin_copper(v)

Maxmin_feasible(list, v) == Maxmin_maxmin(list, v) /\ Maxmin_resources(v)

\* The price list of the notebook's call, and the lists the model draws.
NotebookCosts == << <<12, 9>>, <<11, 10>>, <<8, 11>> >>
PricePairs == { NotebookCosts[i] : i \in 1 .. Len(NotebookCosts) }
CostLists == UNION { [1 .. n -> PricePairs] : n \in 1 .. MaxScen }

\* Boundaries where two scenarios give the same revenue.
Equalizers(cs) ==
    { <<cs[i][1] - cs[j][1], cs[i][2] - cs[j][2], 0>> : <<i, j>> \in (DOMAIN cs) \X (DOMAIN cs) }

MaxminCandX(cs) == GridPts \cup Basic2(BIMLines \cup Equalizers(cs))

MaxminCand(cs) ==
    { <<x[1], x[2], RAdd(Scenario(cs[i], x), R(ZStep * e))>> :
        <<x, i, e>> \in MaxminCandX(cs) \X (DOMAIN cs) \X (-1 .. 1) }

(***************************************************************************)
(* What SOLVER.solve may load into each model: the candidates that satisfy *)
(* the model's variable bounds and constraints.                            *)
(***************************************************************************)
Linear_solutions == { x \in CandX : Linear_feasible(x) }
Frac_solutions == { v \in FracCand : Frac_feasible(v) }
Maxmin_solutions(list, cs) == { v \in MaxminCand(cs) : Maxmin_feasible(list, v) }

(***************************************************************************)
(* The run of a notebook.                                                  *)
(***************************************************************************)
Init ==
    /\ nb \in {"04", "05"}
    /\ pc = "preamble"
    /\ available \in BOOLEAN
    /\ err = ""
    /\ solves = 0
    /\ built = {}
    /\ costs \in IF nb = "04" THEN CostLists ELSE {<<>>}
    /\ maxmin = <<>>
    /\ lin = Unset
    /\ frac = Unset
    /\ mm = Unset
    /\ out = <<>>

\* faulty variant: the assertion not evaluated
AssertAvailable_skipped ==
    /\ pc' = IF nb = "04" THEN "build_maxmin" ELSE "build_linear"
    /\ err' = err

\* assert SOLVER.available(), f"Solver {solver} is not available."
AssertAvailable ==
    IF available
    THEN /\ pc' = IF nb = "04" THEN "build_maxmin" ELSE "build_linear"
         /\ err' = err
    ELSE /\ pc' = "failed"
         /\ err' = AssertMsg

Preamble ==
    /\ pc = "preamble"
    /\ AssertAvailable
    /\ UNCHANGED <<nb, available, solves, built, costs, maxmin, lin, frac, mm, out>>

\* BIM_linear = BIM_with_revenues_minus_costs()
BuildLinear ==
    /\ pc = "build_linear"
    /\ built' = built \cup {"BIM_linear"}
    /\ pc' = "solve_linear"
    /\ UNCHANGED <<nb, available, err, solves, costs, maxmin, lin, frac, mm, out>>

\* SOLVER.solve(BIM_linear)
SolveLinear ==
    /\ pc = "solve_linear"
    /\ lin' \in Linear_solutions
    /\ solves' = solves + 1
    /\ pc' = "print_linear"
    /\ UNCHANGED <<nb, available, err, built, costs, maxmin, frac, mm, out>>

Linear_line(x) ==
    <<Fmt(x[1], 1), Fmt(x[2], 1), Fmt(Linear_profit(x), 3),
      Fmt(Linear_revenue(x), 2), Fmt(Linear_cost(x), 2)>>

PrintLinear ==
    /\ pc = "print_linear"
    /\ out' = Append(out, Linear_line(lin))
    /\ pc' = "build_fractional"
    /\ UNCHANGED <<nb, available, err, solves, built, costs, maxmin, lin, frac, mm>>

\* BIM_fractional = BIM_with_revenues_over_costs()
BuildFractional ==
    /\ pc = "build_fractional"
    /\ built' = built \cup {"BIM_fractional"}
    /\ pc' = "solve_fractional"
    /\ UNCHANGED <<nb, available, err, solves, costs, maxmin, lin, frac, mm, out>>

\* SOLVER.solve(BIM_fractional)
SolveFractional ==
    /\ pc = "solve_fractional"
    /\ frac' \in Frac_solutions
    /\ solves' = solves + 1
    /\ pc' = "print_fractional"
    /\ UNCHANGED <<nb, available, err, built, costs, maxmin, lin, mm, out>>

Frac_line(v) ==
    <<Fmt(Frac_print_x1(v), 1), Fmt(Frac_print_x2(v), 1),
      Fmt(Frac_print_value(v), 3), Fmt(Frac_print_revenue(v), 2),
      Fmt(Frac_print_cost(v), 2)>>

\* t = pyo.value(BIM_fractional.t); the divisions by t raise when t is 0
PrintFractional ==
    /\ pc = "print_fractional"
    /\ IF frac[3] = R(0)
       THEN /\ err' = ZeroDiv
            /\ pc' = "failed"
            /\ out' = out
       ELSE /\ out' = Append(out, Frac_line(frac))
            /\ pc' = "done"
            /\ err' = err
    /\ UNCHANGED <<nb, available, solves, built, costs, maxmin, lin, frac, mm>>

\* m = BIM_maxmin([[12, 9], [11, 10], [8, 11]])
BuildMaxmin ==
    /\ pc = "build_maxmin"
    /\ maxmin' = BIM_maxmin(costs)
    /\ built' = built \cup {"m"}
    /\ pc' = "solve_maxmin"
    /\ UNCHANGED <<nb, available, err, solves, costs, lin, frac, mm, out>>

\* SOLVER.solve(m)
SolveMaxmin ==
    /\ pc = "solve_maxmin"
    /\ mm' \in Maxmin_solutions(maxmin, costs)
    /\ solves' = solves + 1
    /\ pc' = "print_maxmin"
    /\ UNCHANGED <<nb, available, err, built, costs, maxmin, lin, frac, out>>

PrintMaxmin ==
    /\ pc = "print_maxmin"
    /\ out' = out \o << <<Fmt(mm[1], 1), Fmt(mm[2], 1)>>, <<Fmt(Maxmin_profit(mm), 2)>> >>
    /\ pc' = "done"
    /\ UNCHANGED <<nb, available, err, solves, built, costs, maxmin, lin, frac, mm>>

Next ==
    \/ Preamble
    \/ BuildLinear
    \/ SolveLinear
    \/ PrintLinear
    \/ BuildFractional
    \/ SolveFractional
    \/ PrintFractional
    \/ BuildMaxmin
    \/ SolveMaxmin
    \/ PrintMaxmin

Spec == Init /\ [][Next]_vars

(***************************************************************************)
(* Quantities the properties speak of.                                     *)
(***************************************************************************)
\* revenue / cost of a production plan x (the original fractional objective)
Ratio(x) == RDiv(Linear_revenue(x), Linear_cost(x))

\* the change of variables x -> (x1/D, x2/D, 1/D), D the cost of x
Transform(x) ==
    <<RDiv(x[1], Linear_cost(x)), RDiv(x[2], Linear_cost(x)),
      RDiv(R(1), Linear_cost(x))>>

\* and back: (y1, y2, t) -> (y1/t, y2/t)
Recover(v) == <<RDiv(v[1], v[3]), RDiv(v[2], v[3])>>

RMin(p, q) == IF RLe(p, q) THEN p ELSE q

\* the worst-case (minimum) scenario revenue of plan v under prices cs
RECURSIVE MinRevenue(_, _)
MinRevenue(cs, v) ==
    IF Len(cs) = 1 THEN Scenario(cs[1], v)
    ELSE RMin(Scenario(Head(cs), v), MinRevenue(Tail(cs), v))

LinearOpt == <<R(650), R(1100)>>
FracOptX == <<R(250), R(1500)>>
FracOptValue == RDiv(R(16500), Rat(9850, 6))
MaxminOptX == <<Rat(1750, 3), Rat(3500, 3)>>

Linear_optima ==
    { x \in Linear_solutions :
        \A w \in Linear_solutions : RLe(Linear_profit(w), Linear_profit(x)) }
Frac_optima ==
    { v \in Frac_solutions :
        \A w \in Frac_solutions : RLe(Frac_profit(w), Frac_profit(v)) }

\* the best objective of the reformulated model is the best ratio of a plan
SameOptimalValue ==
    \A v \in Frac_optima :
        /\ \A x \in Linear_solutions : RLe(Ratio(x), Frac_profit(v))
        /\ \E x \in Linear_solutions : Ratio(x) = Frac_profit(v)

(***************************************************************************)
(* The states in which SOLVER.solve has just loaded a solution into the    *)
(* model; every solution passes through them and is not changed later.     *)
(***************************************************************************)
LinearLoaded == pc = "print_linear"
FracLoaded == pc = "print_fractional"
MaxminLoaded == pc = "print_maxmin"

(***************************************************************************)
(* C1: in the revenue-minus-cost model (650, 1100) is feasible, its        *)
(* objective is exactly 15925, every solution the solver can load has an   *)
(* objective of at most 15925 and every other one strictly less; the cell  *)
(* then prints x=(650.0,1100.0) value=15925.000 revenue=17700.00           *)
(* cost=1775.00.                                                           *)
(***************************************************************************)
C1_LinearOptimum ==
    /\ Linear_feasible(LinearOpt)
    /\ Linear_profit(LinearOpt) = R(15925)
    /\ LinearLoaded =>
         /\ RLe(Linear_profit(lin), R(15925))
         /\ lin # LinearOpt => RLt(Linear_profit(lin), R(15925))
    /\ (lin = LinearOpt /\ Len(out) >= 1) =>
         out[1] = <<6500, 11000, 15925000, 1770000, 177500>>

C1_Witness == lin = LinearOpt /\ pc = "build_fractional" /\ Len(out) = 1

(***************************************************************************)
(* C2: in the fractional model (250, 1500) is feasible with revenue 16500, *)
(* cost 9850/6 (1641.67) and ratio 16500/(9850/6) (10.051); no feasible    *)
(* plan has a larger revenue/cost ratio, no solution of the reformulated   *)
(* model a larger objective, and a solution attaining it recovers to       *)
(* (250, 1500) and prints x=(250.0,1500.0) value=10.051 revenue=16500.00   *)
(* cost=1641.67.                                                           *)
(***************************************************************************)
C2_FractionalOptimum ==
    /\ Linear_feasible(FracOptX)
    /\ Linear_revenue(FracOptX) = R(16500)
    /\ Linear_cost(FracOptX) = Rat(9850, 6)
    /\ Ratio(FracOptX) = FracOptValue
    /\ Fmt(FracOptValue, 3) = 10051
    /\ LinearLoaded => RLe(Ratio(lin), FracOptValue)
    /\ FracLoaded =>
         /\ RLe(Frac_profit(frac), FracOptValue)
         /\ Frac_profit(frac) = FracOptValue => Recover(frac) = FracOptX
    /\ (frac # Unset /\ pc = "done" /\ Frac_profit(frac) = FracOptValue) =>
         out[2] = <<2500, 15000, 10051, 1650000, 164167>>

C2_Witness ==
    /\ frac # Unset
    /\ pc = "done"
    /\ Recover(frac) = FracOptX
    /\ Frac_profit(frac) = FracOptValue

(***************************************************************************)
(* C3: for BIM_maxmin([[12,9],[11,10],[8,11]]) the plan (1750/3, 3500/3)   *)
(* with z = 17500 is feasible, its minimum scenario revenue is exactly     *)
(* 17500, no solution has z or a minimum scenario revenue above 17500, and *)
(* the optimum prints x = (583.3, 1166.7), revenue = 17500.00.             *)
(***************************************************************************)
C3_MaxminOptimum ==
    /\ Maxmin_feasible(BIM_maxmin(NotebookCosts),
                       <<MaxminOptX[1], MaxminOptX[2], R(17500)>>)
    /\ MinRevenue(NotebookCosts, MaxminOptX) = R(17500)
    /\ (costs = NotebookCosts /\ MaxminLoaded) =>
         /\ RLe(Maxmin_profit(mm), R(17500))
         /\ RLe(MinRevenue(costs, mm), R(17500))
    /\ (costs = NotebookCosts /\ pc = "done" /\ mm # Unset
          /\ Maxmin_profit(mm) = R(17500)) =>
         out = << <<5833, 11667>>, <<1750000>> >>

C3_Witness ==
    /\ costs = NotebookCosts
    /\ pc = "done"
    /\ mm = <<MaxminOptX[1], MaxminOptX[2], R(17500)>>

(***************************************************************************)
(* C4: the change of variables is an equivalence.  Every plan feasible in  *)
(* the original region maps to a point that satisfies the bounds and all   *)
(* constraints of BIM_with_revenues_over_costs, with objective equal to    *)
(* the plan's revenue/cost ratio; every solution (y1, y2, t) of the        *)
(* reformulated model recovers to a plan y/t that is feasible in the       *)
(* original region and whose ratio equals the objective 12*y1 + 9*y2.      *)
(* So the best objective of the reformulated model is the best ratio.      *)
(***************************************************************************)
C4_Equivalence ==
    /\ LinearLoaded =>
         /\ Frac_feasible(Transform(lin))
         /\ Frac_profit(Transform(lin)) = Ratio(lin)
    /\ FracLoaded =>
         /\ RLt(R(0), frac[3])
         /\ Linear_feasible(Recover(frac))
         /\ Ratio(Recover(frac)) = RAdd(RMul(R(12), frac[1]), RMul(R(9), frac[2]))
    /\ SameOptimalValue

C4_Witness == FracLoaded /\ lin # Unset /\ Recover(frac) # lin

(***************************************************************************)
(* C5: the maximin linearization is exact.  BIM_maxmin adds exactly one    *)
(* constraint per price pair, in order; a candidate z satisfies all of     *)
(* them iff z is at most the minimum scenario revenue; so a solution has   *)
(* z <= that minimum, and raising z to the minimum stays feasible.         *)
(***************************************************************************)
C5_MaxminExact ==
    /\ "m" \in built => maxmin = costs
    /\ pc = "solve_maxmin" =>
         \A v \in MaxminCand(costs) :
             Maxmin_maxmin(maxmin, v) <=> RLe(v[3], MinRevenue(costs, v))
    /\ MaxminLoaded =>
         /\ RLe(Maxmin_profit(mm), MinRevenue(costs, mm))
         /\ Maxmin_feasible(maxmin, <<mm[1], mm[2], MinRevenue(costs, mm)>>)

C5_Witness ==
    /\ MaxminLoaded
    /\ Len(costs) = 3
    /\ RLt(Maxmin_profit(mm), MinRevenue(costs, mm))
    /\ RLt(MinRevenue(costs, mm), Scenario(costs[2], mm))

(***************************************************************************)
(* C6: every solution of the reformulated model has t > 0, so the          *)
(* divisions by t in the print never fail and the cell prints its line.    *)
(***************************************************************************)
C6_TPositive ==
    /\ FracLoaded => RLt(R(0), frac[3])
    /\ err # ZeroDiv
    /\ (nb = "05" /\ pc = "done") => Len(out) = 2

C6_Witness == nb = "05" /\ pc = "done" /\ frac # Unset /\ Len(out) = 2

(***************************************************************************)
(* C7: over the BIM region both the revenue 12*x1 + 9*x2 and revenue minus *)
(* cost are maximized at (650, 1100), and only there; the revenue there is *)
(* 17700 and the cost 1775.                                                *)
(***************************************************************************)
C7_SameOptimum ==
    /\ Linear_revenue(LinearOpt) = R(17700)
    /\ Linear_cost(LinearOpt) = R(1775)
    /\ LinearLoaded =>
         /\ RLe(Linear_revenue(lin), Linear_revenue(LinearOpt))
         /\ RLe(Linear_profit(lin), Linear_profit(LinearOpt))
         /\ lin # LinearOpt =>
              /\ RLt(Linear_revenue(lin), Linear_revenue(LinearOpt))
              /\ RLt(Linear_profit(lin), Linear_profit(LinearOpt))

C7_Witness == LinearLoaded /\ lin # LinearOpt /\ RLt(R(17000), Linear_revenue(lin))

(***************************************************************************)
(* C8: when both cells loaded optimal solutions, the plans are (650, 1100) *)
(* and (250, 1500), the efficiency of the first is 17700/1775 (9.972),     *)
(* that of the second 16500/(9850/6) (10.051), and the first is strictly   *)
(* smaller.                                                                *)
(***************************************************************************)
C8_Efficiency ==
    (lin \in Linear_optima /\ frac \in Frac_optima) =>
        /\ lin = LinearOpt
        /\ Recover(frac) = FracOptX
        /\ lin # Recover(frac)
        /\ Ratio(lin) = RDiv(R(17700), R(1775))
        /\ Fmt(Ratio(lin), 3) = 9972
        /\ Frac_print_value(frac) = RDiv(R(16500), Rat(9850, 6))
        /\ Fmt(Frac_print_value(frac), 3) = 10051
        /\ RLt(Ratio(lin), Frac_print_value(frac))

C8_Witness == lin \in Linear_optima /\ frac \in Frac_optima /\ pc = "done"

(***************************************************************************)
(* C9: the availability assertion runs before any model is built or        *)
(* solved; if the solver is unavailable the run fails with the message     *)
(* 'Solver appsi_highs is not available.' and never builds or solves.      *)
(***************************************************************************)
C9_AvailableFirst ==
    /\ pc = "preamble" => (solves = 0 /\ built = {})
    /\ (solves > 0 \/ built # {}) => available
    /\ (~available /\ pc # "preamble") =>
         /\ pc = "failed"
         /\ err = AssertMsg
         /\ solves = 0
         /\ built = {}

C9_Witness == ~available /\ pc = "failed" /\ err = AssertMsg

(***************************************************************************)
(* C10: for every solution of the reformulated model the printed value     *)
(* equals the printed revenue divided by the printed cost, the denominator *)
(* variable_cost + fixed_cost*t is 1, and the printed value equals the     *)
(* objective 12*y1 + 9*y2.                                                 *)
(***************************************************************************)
C10_PrintConsistent ==
    FracLoaded =>
        /\ Frac_print_value(frac)
             = RDiv(Frac_print_revenue(frac), Frac_print_cost(frac))
        /\ RAdd(Frac_variable_cost(frac), RMul(Frac_fixed_cost, frac[3])) = R(1)
        /\ Frac_print_value(frac) = RAdd(RMul(R(12), frac[1]), RMul(R(9), frac[2]))

C10_Witness == frac # Unset /\ pc = "done" /\ Len(out) = 2 /\ frac[1] # R(0)

====
